---------------------------- MODULE Spec2Model ----------------------------
(***************************************************************************)
(* Model of scripts/lint/lint.py: the driver go() that compiles three      *)
(* Ninja graphs (lint, fix, format) from the tracked files, validates      *)
(* them with ok(), writes them and replaces the process with ninja.        *)
(*                                                                         *)
(* A NinjaScript (a Python str) is modelled as the sequence of its lines.  *)
(* Every chunk the code appends ends with a newline, so the text is the    *)
(* lines joined by "\n".  A line is a record: its text, and for a line     *)
(* appended by build() also the out / rule / ins it was formatted from.    *)
(* ok() reads the text only, exactly as the code re-parses the string.     *)
(***************************************************************************)
EXTENDS Integers, Sequences, FiniteSets, TLC

(* Largest number of tracked files of a modelled repository. *)
MaxFiles == 2

(* Longest output name or path handed to build() or lint() called directly. *)
MaxName == 3

(* Longest text of a file handed to whitespace.py's check_file(). *)
MaxText == 4

(***************************************************************************)
(* Python str helpers.                                                     *)
(***************************************************************************)
StartsWith(s, p) == Len(s) >= Len(p) /\ SubSeq(s, 1, Len(p)) = p

EndsWith(s, p) == Len(s) >= Len(p) /\ SubSeq(s, Len(s) - Len(p) + 1, Len(s)) = p

(* `p in s` *)
Contains(s, p) ==
    \E i \in 1..(Len(s) - Len(p) + 1) : SubSeq(s, i, i + Len(p) - 1) = p

(* s.replace(a, b) for a one-character a *)
RECURSIVE Replace(_, _, _)
Replace(s, a, b) ==
    IF s = "" THEN ""
    ELSE (IF Head(s) = a THEN b ELSE Head(s)) \o Replace(Tail(s), a, b)

IsSpace(c) == c \in {" ", "\t"}

(* s with its leading whitespace removed *)
RECURSIVE LStrip(_)
LStrip(s) == IF s # "" /\ IsSpace(Head(s)) THEN LStrip(Tail(s)) ELSE s

(* the leading run of non-whitespace characters of s *)
RECURSIVE FirstWord(_)
FirstWord(s) ==
    IF s = "" \/ IsSpace(Head(s)) THEN "" ELSE Head(s) \o FirstWord(Tail(s))

(* line.split()[1]: the second whitespace-separated word ("" when absent) *)
SecondWord(line) ==
    LET a == LStrip(line)
        b == SubSeq(a, Len(FirstWord(a)) + 1, Len(a))
    IN FirstWord(LStrip(b))

(* the leading whitespace of s *)
LeadingWs(s) == SubSeq(s, 1, Len(s) - Len(LStrip(s)))

RECURSIVE CommonPrefix(_, _)
CommonPrefix(a, b) ==
    IF a = "" \/ b = "" \/ Head(a) # Head(b) THEN ""
    ELSE Head(a) \o CommonPrefix(Tail(a), Tail(b))

(* Fold of Body over the elements of seq, left to right (a Python for loop). *)
ForEach(Body(_, _), acc, seq) ==
    LET f[i \in 0..Len(seq)] == IF i = 0 THEN acc ELSE Body(f[i - 1], seq[i])
    IN f[Len(seq)]

Range(seq) == {seq[i] : i \in 1..Len(seq)}

(***************************************************************************)
(* textwrap.dedent on a text given as its "\n"-separated pieces:           *)
(* whitespace-only lines become empty, the longest common leading          *)
(* whitespace of the other lines is removed from each of them.             *)
(***************************************************************************)
dedent(pieces) ==
    LET content == SelectSeq(pieces, LAMBDA l : LStrip(l) # "")
        margin == IF content = <<>> THEN ""
                  ELSE ForEach(LAMBDA m, l : CommonPrefix(m, LeadingWs(l)),
                               LeadingWs(content[1]), content)
    IN [i \in 1..Len(pieces) |->
           IF LStrip(pieces[i]) = "" THEN ""
           ELSE SubSeq(pieces[i], Len(margin) + 1, Len(pieces[i]))]

(* The lines of a text that ends with "\n", given its "\n"-separated pieces
   (the last piece is the empty remainder after the final newline). *)
TextLines(pieces) ==
    IF pieces # <<>> /\ pieces[Len(pieces)] = ""
    THEN SubSeq(pieces, 1, Len(pieces) - 1)
    ELSE pieces

Line(text) == [kind |-> "line", text |-> text, out |-> "", rule |-> "", ins |-> ""]

(***************************************************************************)
(* The repository and the environment of one run.                          *)
(***************************************************************************)
(* Candidate tracked paths, in the byte order git ls-files lists them. *)
Paths ==
    << ".github/workflows/ci.yml",
       ".github/workflows/dependabot.yml",
       "a b.json",
       "a-b.sh",
       "a/b.sh",
       "f.nix",
       "files/scripts/bin/x.bash",
       "n.py",
       "rust/Cargo.toml",
       "src/m.rs",
       "sub/Makefile",
       "x.md" >>

(* Candidate --skip arguments; the empty set is "no --skip" (skip = None). *)
SkipChoices ==
    { {},
      {"typos"},
      {"zizmor"},
      {"clippy", "xref"},
      {"ttlint", "ttlint-fix"},
      {"py", "ruff-check", "ruff-fmt-check"} }

ALL_PATS ==
    << "*.bash", "*.cabal", "**/Cargo.toml", "files/scripts/bin/*",
       ".github/**/*.yml", "*.hs", "*.json", "**/Makefile", "*.md", "*.mk",
       "*.nix", "*.project", "*.py", "*.rs", "*.scala", "*.sh", "*.toml",
       "*.zsh" >>

(* git pathspec matching without glob magic: "*" (and so "**") matches any
   string, "/" included; every other character matches itself. *)
RECURSIVE Glob(_, _)
Glob(pat, s) ==
    IF pat = "" THEN s = ""
    ELSE IF Head(pat) = "*"
         THEN \E k \in 0..Len(s) : Glob(Tail(pat), SubSeq(s, k + 1, Len(s)))
         ELSE s # "" /\ Head(s) = Head(pat) /\ Glob(Tail(pat), Tail(s))

Matches == [p \in Range(ALL_PATS) |-> {f \in Range(Paths) : Glob(p, f)}]

VARIABLES
    pc,         \* the statement of go() about to run, or a terminal state
    scripts,    \* NinjaScripts: [lint, fix, format], each a sequence of lines
    tracked,    \* the files git tracks
    noqa,       \* the tracked files whose text starts with "# noqa"
    git,        \* "ok", "fail" (git ls-files exits non-zero, empty stdout)
                \* or "missing" (the git binary cannot be run)
    ci,         \* environ.get("CI") is not None
    skip,       \* skip_set; {} stands for None
    do_format,
    do_fix,
    listed,     \* the list the last category module got from ls_files
    validated,  \* the graphs ok() has returned for
    written,    \* the graph files written
    execs,      \* the graph files ninja was exec'd on
    failure,    \* the exception that ended the run, "" when none
    failedRule, \* the rule named by ok()'s failed assertion
    call,       \* the last direct call of build() or lint(): its arguments,
                \* the output name it asked for and the exception it raised
    wsFile,     \* whitespace.py: the file check_file() is run on
    report      \* whitespace.py: what the last check_file() run did

(* the variables go() does not touch *)
aux == << call, wsFile, report >>

vars == << pc, scripts, tracked, noqa, git, ci, skip, do_format, do_fix,
           listed, validated, written, execs, failure, failedRule, aux >>

NoCall == [fn |-> "", out |-> "", rule |-> "", ins |-> "", err |-> ""]

NoFile == [text |-> "", decodable |-> TRUE]

NoReport == [fix |-> FALSE, problems |-> <<>>, exit |-> FALSE]

(***************************************************************************)
(* build, rules, lint, txt_lint, txt_format.  A call returns               *)
(* [ninja, err]: err is the exception raised ("" when it returns).         *)
(***************************************************************************)
Edge(out, rule, ins) ==
    [kind |-> "build",
     text |-> "build $builddir/" \o out \o ": " \o rule \o " " \o ins,
     out |-> out, rule |-> rule, ins |-> ins]

(* build() without its assertion on out *)
build_noassert(ninja, out, rule, ins, skp) ==
    IF rule \in skp THEN [ninja |-> ninja, err |-> ""]
    ELSE [ninja |-> Append(ninja, Edge(out, rule, ins)), err |-> ""]

build(ninja, out, rule, ins, skp) ==
    IF rule \in skp THEN [ninja |-> ninja, err |-> ""]
    ELSE IF Contains(out, " ") THEN [ninja |-> ninja, err |-> "AssertionError"]
    ELSE [ninja |-> Append(ninja, Edge(out, rule, ins)), err |-> ""]

(* rules() appending rule_def as written, without dedent *)
rules_nodedent(ninja, rule_def) ==
    LET d == TextLines(rule_def)
    IN ninja \o [i \in 1..Len(d) |-> Line(d[i])]

rules(ninja, rule_def) ==
    LET d == TextLines(dedent(rule_def))
    IN ninja \o [i \in 1..Len(d) |-> Line(d[i])]

slug(ins, rule) == Replace(ins, "/", "-") \o "." \o rule

(* lint() without its skip test *)
lint_noskip(ninja, rule, ins, skp) == build(ninja, slug(ins, rule), rule, ins, {})

lint(ninja, rule, ins, skp) ==
    IF rule \in skp THEN [ninja |-> ninja, err |-> ""]
    ELSE build(ninja, slug(ins, rule), rule, ins, {})

txt_lint(ninja, path, skp) == lint(ninja, "ttlint", path, skp)

txt_format(ninja, path, skp) == lint(ninja, "ttlint-fix", path, skp)

(***************************************************************************)
(* ls_files: [files, err].  A non-zero exit of git is not looked at: its   *)
(* empty stdout gives the empty list.  A git that cannot be started makes  *)
(* run() raise.                                                            *)
(***************************************************************************)
ls_files(pats) ==
    IF \E i \in 1..Len(pats) : pats[i] \notin Range(ALL_PATS)
    THEN [files |-> <<>>, err |-> "AssertionError"]
    ELSE IF git = "missing" THEN [files |-> <<>>, err |-> "FileNotFoundError"]
    ELSE IF git = "fail" THEN [files |-> <<>>, err |-> ""]
    ELSE [files |-> SelectSeq(Paths, LAMBDA f :
                        f \in tracked /\ \E i \in 1..Len(pats) : f \in Matches[pats[i]]),
          err |-> ""]

(***************************************************************************)
(* Category modules.  Inside a module S is [lint, fix, format, err]: the   *)
(* NinjaScripts object and the exception raised so far; once err is set    *)
(* the remaining statements do not run.  A module returns S and the list   *)
(* it enumerated.                                                          *)
(***************************************************************************)
Start(scr) == [lint |-> scr.lint, fix |-> scr.fix, format |-> scr.format, err |-> ""]

(* scripts.<g> = f(scripts.<g>, ...) where the call gave r *)
Assign(S, g, r) ==
    IF r.err # "" THEN [S EXCEPT !.err = r.err] ELSE [S EXCEPT ![g] = r.ninja]

Lint(S, g, rule, path, skp) ==
    IF S.err # "" THEN S ELSE Assign(S, g, lint(S[g], rule, path, skp))

Build(S, g, out, rule, ins, skp) ==
    IF S.err # "" THEN S ELSE Assign(S, g, build(S[g], out, rule, ins, skp))

Rules(S, g, rule_def) == [S EXCEPT ![g] = rules(S[g], rule_def)]

(* the txt_lint / txt_format pair every text-bearing category ends with *)
Hygiene(S, path, skp) ==
    Lint(Lint(S, "lint", "ttlint", path, skp), "format", "ttlint-fix", path, skp)

Raised(S, e) == [S |-> [S EXCEPT !.err = e], listed |-> <<>>]

Returned(S, files) == [S |-> S, listed |-> files]

bash_rules ==
    << "",
       "    rule bash-n",
       "      command = bash -n -- $in && touch $out",
       "      description = bash -n",
       "",
       "    rule bash-sc",
       "      command = shellcheck --shell=bash -- $in && touch $out",
       "      description = shellcheck",
       "    " >>

(* bash() declaring its rules before looking at the file list *)
bash_rules_first(S, skp) ==
    LET ls == ls_files(<<"*.bash">>)
        body(T, path) ==
            Hygiene(Lint(Lint(T, "lint", "bash-n", path, skp),
                         "lint", "bash-sc", path, skp), path, skp)
    IN IF ls.err # "" THEN Raised(S, ls.err)
       ELSE Returned(ForEach(body, Rules(S, "lint", bash_rules), ls.files), ls.files)

bash(S, skp) ==
    LET ls == ls_files(<<"*.bash">>)
        body(T, path) ==
            Hygiene(Lint(Lint(T, "lint", "bash-n", path, skp),
                         "lint", "bash-sc", path, skp), path, skp)
    IN IF ls.err # "" THEN Raised(S, ls.err)
       ELSE IF ls.files = <<>> THEN Returned(S, ls.files)
       ELSE Returned(ForEach(body, Rules(S, "lint", bash_rules), ls.files), ls.files)

gha_lint_rules ==
    << "",
       "    rule zizmor",
       "      command = zizmor --quiet -- $in && touch $out",
       "      description = zizmor",
       "    " >>

gha_fix_rules ==
    << "",
       "    rule zizmor-fix",
       "      command = zizmor --fix=safe -- $in && touch $out",
       "      description = zizmor --fix=safe",
       "    " >>

gha(S, skp) ==
    LET ls == ls_files(<<".github/**/*.yml">>)
        body(T, path) ==
            IF EndsWith(path, "workflows/dependabot.yml") THEN T
            ELSE Hygiene(Lint(Lint(T, "lint", "zizmor", path, skp),
                              "fix", "zizmor-fix", path, skp), path, skp)
    IN IF ls.err # "" THEN Raised(S, ls.err)
       ELSE IF ls.files = <<>> THEN Returned(S, ls.files)
       ELSE Returned(ForEach(body,
                             Rules(Rules(S, "lint", gha_lint_rules), "fix", gha_fix_rules),
                             ls.files), ls.files)

json_rules ==
    << "",
       "    rule jq",
       "      command = jq null -- $in > /dev/null && touch $out",
       "      description = jq",
       "    " >>

json(S, skp) ==
    LET ls == ls_files(<<"*.json">>)
        body(T, path) == Hygiene(Lint(T, "lint", "jq", path, skp), path, skp)
    IN IF ls.err # "" THEN Raised(S, ls.err)
       ELSE IF ls.files = <<>> THEN Returned(S, ls.files)
       ELSE Returned(ForEach(body, Rules(S, "lint", json_rules), ls.files), ls.files)

make_rules ==
    << "",
       "    rule make-n",
       "      command = make -n -f $$in && touch $out",
       "      description = make -n",
       "    " >>

make(S, skp) ==
    LET ls == ls_files(<<"**/Makefile">>)
        body(T, path) == Hygiene(Lint(T, "lint", "make-n", path, skp), path, skp)
    IN IF ls.err # "" THEN Raised(S, ls.err)
       ELSE IF ls.files = <<>> THEN Returned(S, ls.files)
       ELSE Returned(ForEach(body, Rules(S, "lint", make_rules), ls.files), ls.files)

md_lint_rules ==
    << "",
       "    rule mdlynx",
       "      command = mdlynx $in && touch $out",
       "      description = mdlynx",
       "",
       "    rule typos",
       "      command = typos $in && touch $out",
       "      description = typos",
       "    " >>

md_fix_rules ==
    << "",
       "    rule typos-fix",
       "      command = typos --write-changes -- $in && touch $out",
       "      description = typos --write-changes",
       "    " >>

md(S, skp) ==
    LET ls == ls_files(<<"*.md">>)
        body(T, path) ==
            Hygiene(Lint(Lint(Lint(T, "lint", "mdlynx", path, skp),
                              "lint", "typos", path, skp),
                         "fix", "typos-fix", path, skp), path, skp)
    IN IF ls.err # "" THEN Raised(S, ls.err)
       ELSE IF ls.files = <<>> THEN Returned(S, ls.files)
       ELSE Returned(ForEach(body,
                             Rules(Rules(S, "lint", md_lint_rules), "fix", md_fix_rules),
                             ls.files), ls.files)

nix(S, skp) ==
    LET ls == ls_files(<<"*.nix">>)
        body(T, path) == Hygiene(T, path, skp)
    IN IF ls.err # "" THEN Raised(S, ls.err)
       ELSE IF ls.files = <<>> THEN Returned(S, ls.files)
       ELSE Returned(ForEach(body, S, ls.files), ls.files)

py_lint_rules ==
    << "",
       "    rule ty",
       "      command = ty check -- $in && touch $out",
       "      description = ty",
       "",
       "    rule py",
       "      command = ./scripts/lint/py.py -- $in && touch $out",
       "      description = python style",
       "",
       "    rule ruff-check",
       "      command = ruff check --quiet -- $in && touch $out",
       "      description = ruff check",
       "",
       "    rule ruff-fmt-check",
       "      command = ruff format --check --quiet -- $in && touch $out",
       "      description = ruff format --check",
       "    " >>

py_fix_rules ==
    << "",
       "    rule ruff-check-fix",
       "      command = ruff check --fix -- $in && touch $out",
       "      description = ruff check --fix",
       "    " >>

py_format_rules ==
    << "",
       "    rule ruff-fmt",
       "      command = ruff format --quiet -- $in && touch $out",
       "      description = ruff format",
       "    " >>

py(S, skp) ==
    LET ls == ls_files(<<"*.py">>)
        body(T, path) ==
            IF path \in noqa THEN T
            ELSE LET T1 == Lint(T, "lint", "ty", path, skp)
                     T2 == Lint(T1, "lint", "ruff-check", path, skp)
                     T3 == Lint(T2, "lint", "ruff-fmt-check", path, skp)
                     T4 == Lint(T3, "lint", "py", path, skp)
                     T5 == Lint(T4, "fix", "ruff-check-fix", path, skp)
                     T6 == Lint(T5, "lint", "ttlint", path, skp)
                     T7 == Lint(T6, "format", "ruff-fmt", path, skp)
                 IN Lint(T7, "format", "ttlint-fix", path, skp)
    IN IF ls.err # "" THEN Raised(S, ls.err)
       ELSE IF ls.files = <<>> THEN Returned(S, ls.files)
       ELSE Returned(ForEach(body,
                             Rules(Rules(Rules(S, "lint", py_lint_rules),
                                         "fix", py_fix_rules),
                                   "format", py_format_rules),
                             ls.files), ls.files)

(* " ".join(files) *)
Join(files) ==
    IF files = <<>> THEN ""
    ELSE ForEach(LAMBDA acc, f : acc \o " " \o f, files[1], Tail(files))

(* str(Path(path).parent) *)
RECURSIVE Parent(_)
Parent(path) ==
    IF path = "" THEN "."
    ELSE IF SubSeq(path, Len(path), Len(path)) = "/"
         THEN (IF Len(path) = 1 THEN "/" ELSE SubSeq(path, 1, Len(path) - 1))
         ELSE Parent(SubSeq(path, 1, Len(path) - 1))

(* Path(__file__).absolute().parent.parent.parent: the repository root *)
root == "/repo"

rs_lint_rules(cd) ==
    << "",
       "    rule clippy",
       "      command = " \o cd \o "cargo clippy --all-targets --quiet -- --deny warnings && touch "
           \o root \o "/$out",
       "      description = cargo clippy",
       "",
       "    rule rustfmt-check",
       "      command = " \o cd \o "cargo fmt --check && touch " \o root \o "/$out",
       "      description = cargo fmt --check",
       "    " >>

rs_fix_rules(cd) ==
    << "",
       "    rule clippy-fix",
       "      command = " \o cd
           \o "cargo clippy  --all-targets --allow-dirty --fix --quiet -- --deny warnings && touch "
           \o root \o "/$out",
       "      description = cargo clippy --fix",
       "    " >>

rs_format_rules(cd) ==
    << "",
       "    rule rustfmt",
       "      command = " \o cd \o "cargo fmt && touch " \o root \o "/$out",
       "      description = cargo fmt",
       "    " >>

rs(S, skp) ==
    LET cargo == ls_files(<<"**/Cargo.toml">>)
        ls == ls_files(<<"*.rs">>)
        cd == IF Len(cargo.files) = 1
              THEN "cd " \o Parent(cargo.files[1]) \o "; " ELSE ""
        S1 == Rules(Rules(Rules(S, "lint", rs_lint_rules(cd)),
                          "fix", rs_fix_rules(cd)),
                    "format", rs_format_rules(cd))
        S2 == Build(S1, "lint", "clippy", "clippy", Join(cargo.files \o ls.files), skp)
        S3 == Build(S2, "lint", "rustfmt-check", "rustfmt-check", Join(ls.files), skp)
        S4 == Build(S3, "format", "rustfmt", "rustfmt", Join(ls.files), skp)
        S5 == Build(S4, "fix", "clippy-fix", "clippy-fix", Join(cargo.files \o ls.files), skp)
        body(T, path) == Hygiene(T, path, skp)
    IN IF cargo.err # "" THEN Raised(S, cargo.err)
       ELSE IF ls.err # "" THEN Raised(S, ls.err)
       ELSE IF ls.files = <<>> THEN Returned(S, ls.files)
       ELSE Returned(ForEach(body, S5, ls.files), ls.files)

sh_rules ==
    << "",
       "    rule sc",
       "      command = shellcheck --shell=bash -- $in && touch $out",
       "      description = shellcheck",
       "    " >>

sh(S, skp) ==
    LET ls == ls_files(<<"*.sh", "files/scripts/bin/*">>)
        body(T, path) == Hygiene(Lint(T, "lint", "sc", path, skp), path, skp)
    IN IF ls.err # "" THEN Raised(S, ls.err)
       ELSE IF ls.files = <<>> THEN Returned(S, ls.files)
       ELSE Returned(ForEach(body, Rules(S, "lint", sh_rules), ls.files), ls.files)

toml_lint_rules ==
    << "",
       "    rule taplo-format-check",
       "      command = taplo format --check --diff -- $in && touch $out",
       "      description = taplo format --check",
       "    " >>

toml_format_rules ==
    << "",
       "    rule taplo-format",
       "      command = taplo format -- $in && touch $out",
       "      description = taplo format",
       "    " >>

toml(S, skp) ==
    LET ls == ls_files(<<"*.toml">>)
        body(T, path) ==
            LET T1 == Lint(T, "lint", "taplo-format-check", path, skp)
                T2 == Lint(T1, "lint", "ttlint", path, skp)
                T3 == Lint(T2, "format", "taplo-format", path, skp)
            IN Lint(T3, "format", "ttlint-fix", path, skp)
    IN IF ls.err # "" THEN Raised(S, ls.err)
       ELSE IF ls.files = <<>> THEN Returned(S, ls.files)
       ELSE Returned(ForEach(body,
                             Rules(Rules(S, "lint", toml_lint_rules),
                                   "format", toml_format_rules),
                             ls.files), ls.files)

xref_rules ==
    << "",
       "    rule xref",
       "      command = ./scripts/lint/xref.py -- $in && touch $out",
       "      description = xref",
       "    " >>

xref(S, skp) ==
    LET ls == ls_files(ALL_PATS)
    IN IF ls.err # "" THEN Raised(S, ls.err)
       ELSE IF ls.files = <<>> THEN Returned(S, ls.files)
       ELSE Returned(Build(Rules(S, "lint", xref_rules),
                           "lint", "xref", "xref", Join(ls.files), skp), ls.files)

(***************************************************************************)
(* ok(): [err, rule].  rule is the first declared rule, in the order of    *)
(* the "rule" lines, that is not skipped and for which no line starting    *)
(* with "build" contains ": " + rule.                                      *)
(***************************************************************************)
rule_names(ninja) ==
    LET decl == SelectSeq(ninja, LAMBDA l : StartsWith(l.text, "rule"))
    IN [i \in 1..Len(decl) |-> SecondWord(decl[i].text)]

HasBuildLine(ninja, rule) ==
    \E i \in 1..Len(ninja) :
        StartsWith(ninja[i].text, "build") /\ Contains(ninja[i].text, ": " \o rule)

ok(ninja, skp) ==
    LET names == rule_names(ninja)
        bad == {i \in 1..Len(names) : names[i] \notin skp /\ ~HasBuildLine(ninja, names[i])}
    IN IF ci \/ bad = {} THEN [err |-> "", rule |-> ""]
       ELSE [err |-> "AssertionError",
             rule |-> names[CHOOSE i \in bad : \A j \in bad : i <= j]]

(***************************************************************************)
(* go()                                                                    *)
(***************************************************************************)
InitLint ==
    rules(<<>>, << "",
                   "    builddir=.out/",
                   "",
                   "    rule ttlint",
                   "      command = ttlint -- $in && touch $out",
                   "      description = ttlint",
                   "    " >>)

InitFix == rules(<<>>, << "", "    builddir=.out/", "    " >>)

InitFormat ==
    rules(<<>>, << "",
                   "    builddir=.out/",
                   "",
                   "    rule ttlint-fix",
                   "      command = ttlint --fix -- $in && touch $out",
                   "      description = ttlint --fix",
                   "    " >>)

(* go() writing the graph files before validating them *)
GoStepsWriteFirst ==
    << "bash", "gha", "json", "md", "make", "nix", "py", "rs", "sh", "toml", "xref",
       "write_lint", "write_fix", "write_format",
       "ok_lint", "ok_fix", "ok_format",
       "exec_fix", "exec_format", "exec_lint" >>

(* The statements of go() in program order. *)
GoSteps ==
    << "bash", "gha", "json", "md", "make", "nix", "py", "rs", "sh", "toml", "xref",
       "ok_lint", "ok_fix", "ok_format",
       "write_lint", "write_fix", "write_format",
       "exec_fix", "exec_format", "exec_lint" >>

After(step) ==
    LET i == CHOOSE k \in 1..Len(GoSteps) : GoSteps[k] = step
    IN IF i = Len(GoSteps) THEN "done" ELSE GoSteps[i + 1]

Init ==
    /\ pc = GoSteps[1]
    /\ scripts = [lint |-> InitLint, fix |-> InitFix, format |-> InitFormat]
    /\ git \in {"ok", "fail", "missing"}
    /\ tracked \in {t \in SUBSET Range(Paths) : Cardinality(t) <= MaxFiles}
    /\ git # "ok" => tracked = {}
    /\ noqa \in SUBSET (tracked \cap Matches["*.py"])
    /\ ci \in BOOLEAN
    /\ skip \in SkipChoices
    /\ do_format \in BOOLEAN
    /\ do_fix \in BOOLEAN
    /\ ~(do_format /\ do_fix)
    /\ listed = <<>>
    /\ validated = {}
    /\ written = {}
    /\ execs = <<>>
    /\ failure = ""
    /\ failedRule = ""
    /\ call = NoCall
    /\ wsFile = NoFile
    /\ report = NoReport

(* scripts = module(scripts, skip=skip), where the call gave r *)
RunModule(step, r) ==
    /\ pc = step
    /\ scripts' = [lint |-> r.S.lint, fix |-> r.S.fix, format |-> r.S.format]
    /\ listed' = r.listed
    /\ failure' = r.S.err
    /\ pc' = IF r.S.err # "" THEN "aborted" ELSE After(step)
    /\ UNCHANGED << tracked, noqa, git, ci, skip, do_format, do_fix,
                    validated, written, execs, failedRule, aux >>

Bash == RunModule("bash", bash(Start(scripts), skip))

Gha == RunModule("gha", gha(Start(scripts), skip))

Json == RunModule("json", json(Start(scripts), skip))

Md == RunModule("md", md(Start(scripts), skip))

Make == RunModule("make", make(Start(scripts), skip))

Nix == RunModule("nix", nix(Start(scripts), skip))

Py == RunModule("py", py(Start(scripts), skip))

Rs == RunModule("rs", rs(Start(scripts), skip))

Sh == RunModule("sh", sh(Start(scripts), skip))

Toml == RunModule("toml", toml(Start(scripts), skip))

Xref == RunModule("xref", xref(Start(scripts), skip))

(* ok(scripts.<g>, skip=skip) *)
Validate(step, g) ==
    /\ pc = step
    /\ LET r == ok(scripts[g], skip)
       IN /\ failure' = r.err
          /\ failedRule' = r.rule
          /\ validated' = IF r.err = "" THEN validated \cup {g} ELSE validated
          /\ pc' = IF r.err = "" THEN After(step) ELSE "aborted"
    /\ UNCHANGED << scripts, tracked, noqa, git, ci, skip, do_format, do_fix,
                    listed, written, execs, aux >>

OkLint == Validate("ok_lint", "lint")

OkFix == Validate("ok_fix", "fix")

OkFormat == Validate("ok_format", "format")

(* Path(file).write_text(scripts.<g>) *)
Write(step, file) ==
    /\ pc = step
    /\ written' = written \cup {file}
    /\ pc' = After(step)
    /\ UNCHANGED << scripts, tracked, noqa, git, ci, skip, do_format, do_fix,
                    listed, validated, execs, failure, failedRule, aux >>

WriteLint == Write("write_lint", "lint.ninja")

WriteFix == Write("write_fix", "fix.ninja")

WriteFormat == Write("write_format", "format.ninja")

(* Where control is after execvp("ninja", ...): on success the process is
   ninja and go() never continues; on failure execvp raises OSError. *)
(* execvp behaving like subprocess.run: control comes back to go() *)
AfterExecReturns(started, next) == IF started THEN next ELSE "aborted"

AfterExec(started, next) == IF started THEN "replaced" ELSE "aborted"

(* the fix graph run under --format too *)
RunsFixOrFormat == do_fix \/ do_format

RunsFix == do_fix

RunsFormat == do_format

(* if cond: execvp("ninja", ["ninja", "-f", file]) *)
Exec(step, cond, file) ==
    /\ pc = step
    /\ IF cond
       THEN \E started \in BOOLEAN :
               /\ execs' = IF started THEN Append(execs, file) ELSE execs
               /\ failure' = IF started THEN failure ELSE "OSError"
               /\ pc' = AfterExec(started, After(step))
       ELSE /\ pc' = After(step)
            /\ UNCHANGED << execs, failure >>
    /\ UNCHANGED << scripts, tracked, noqa, git, ci, skip, do_format, do_fix,
                    listed, validated, written, failedRule, aux >>

ExecFix == Exec("exec_fix", RunsFix, "fix.ninja")

ExecFormat == Exec("exec_format", RunsFormat, "format.ninja")

ExecLint == Exec("exec_lint", TRUE, "lint.ninja")

Next ==
    \/ Bash
    \/ Gha
    \/ Json
    \/ Md
    \/ Make
    \/ Nix
    \/ Py
    \/ Rs
    \/ Sh
    \/ Toml
    \/ Xref
    \/ OkLint
    \/ OkFix
    \/ OkFormat
    \/ WriteLint
    \/ WriteFix
    \/ WriteFormat
    \/ ExecFix
    \/ ExecFormat
    \/ ExecLint

Spec == Init /\ [][Next]_vars

(***************************************************************************)
(* Properties                                                              *)
(***************************************************************************)
Graphs == {"lint", "fix", "format"}

IsEdge(g, i) == scripts[g][i].kind = "build"

(* line j of graph g is the declaration "rule <name>" *)
Declares(g, j, name) ==
    StartsWith(scripts[g][j].text, "rule") /\ SecondWord(scripts[g][j].text) = name

DeclaredRules(g) == Range(rule_names(scripts[g]))

(* C1 as stated: a --fix run whose executor invocations succeed has run
   ninja on fix.ninja, then format.ninja, then lint.ninja when it ends. *)
C1_FixThenFormatThenLint ==
    (do_fix /\ pc \in {"replaced", "done"})
        => execs = <<"fix.ninja", "format.ninja", "lint.ninja">>

(* C1 amended: under --fix ninja is exec'd at most once, on fix.ninja; its
   start replaces the process, which is then in its terminal state without
   format.ninja or lint.ninja having been executed. *)
C1_FixOnly ==
    do_fix => \/ execs = <<>> /\ pc # "replaced"
              \/ execs = <<"fix.ninja">> /\ pc = "replaced"

C1_Witness ==
    do_fix /\ ~do_format /\ pc = "replaced" /\ execs = <<"fix.ninja">>
        /\ written = {"lint.ninja", "fix.ninja", "format.ninja"}

(* C2 as stated: a --format run whose executor invocations succeed never
   runs the fix graph, runs the format graph and afterwards the lint graph. *)
C2_FormatThenLint ==
    (do_format /\ ~do_fix /\ pc \in {"replaced", "done"})
        => execs = <<"format.ninja", "lint.ninja">>

(* C2 amended: under --format alone ninja is never exec'd on fix.ninja and
   is exec'd exactly once, on format.ninja; that replaces the process, so
   lint.ninja is not executed afterwards. *)
C2_FormatOnly ==
    (do_format /\ ~do_fix)
        => /\ \A i \in 1..Len(execs) : execs[i] # "fix.ninja"
           /\ pc = "replaced" <=> execs = <<"format.ninja">>
           /\ pc # "replaced" => execs = <<>>

C2_Witness ==
    do_format /\ ~do_fix /\ pc = "replaced" /\ execs = <<"format.ninja">>
        /\ tracked # {}

(* C3: in each graph no two build edges have the same output path; stated
   for the case the claim singles out, the edges one file receives from the
   category modules run in sequence. *)
C3_UniqueOutputs ==
    \A g \in Graphs : \A i, j \in 1..Len(scripts[g]) :
        (i < j /\ IsEdge(g, i) /\ IsEdge(g, j)
               /\ scripts[g][i].ins = scripts[g][j].ins)
            => scripts[g][i].out # scripts[g][j].out

(* C4: the slugs lint() emits for two distinct files under the same rule
   are distinct. *)
C4_SlugInjective ==
    \A g \in Graphs : \A i, j \in 1..Len(scripts[g]) :
        (IsEdge(g, i) /\ IsEdge(g, j)
               /\ scripts[g][i].rule = scripts[g][j].rule
               /\ scripts[g][i].ins \in tracked /\ scripts[g][j].ins \in tracked
               /\ scripts[g][i].ins # scripts[g][j].ins)
            => scripts[g][i].out # scripts[g][j].out

(* C5: outside CI a graph ok() has accepted has, for every declared rule
   not in the skip set, a build edge whose rule is exactly that rule. *)
C5_ValidatedRulesHaveEdges ==
    \A g \in validated :
        ~ci => \A r \in DeclaredRules(g) \ skip :
                   \E i \in 1..Len(scripts[g]) : IsEdge(g, i) /\ scripts[g][i].rule = r

(* C6: no build edge of any graph has a rule of the skip set, and ok() never
   fails naming a rule of the skip set. *)
C6_SkippedNeverReferenced ==
    /\ \A g \in Graphs : \A i \in 1..Len(scripts[g]) :
           IsEdge(g, i) => scripts[g][i].rule \notin skip
    /\ failedRule \notin skip

C6_Witness ==
    /\ ~ci
    /\ validated = Graphs
    /\ "clippy" \in skip
    /\ "clippy" \in DeclaredRules("lint")
    /\ \E i \in 1..Len(scripts.lint) : IsEdge("lint", i)

(* C7: when the git listing fails no graph file is written and ninja is not
   exec'd. *)
C7_ListingFailureFatal ==
    git # "ok" => (written = {} /\ execs = <<>>)

(* C8: every build edge's rule is declared in the same graph by a "rule"
   line that comes before the edge. *)
C8_DeclaredBeforeUse ==
    \A g \in Graphs : \A i \in 1..Len(scripts[g]) :
        IsEdge(g, i) => \E j \in 1..(i - 1) : Declares(g, j, scripts[g][i].rule)

C8_Witness ==
    /\ pc = "py"
    /\ listed # <<>>
    /\ \E i \in 1..Len(scripts.lint) : IsEdge("lint", i) /\ scripts.lint[i].rule = "ttlint"
    /\ \E i \in 1..Len(scripts.fix) : IsEdge("fix", i)

(* C9: a graph file is written or ninja exec'd only after ok() has returned
   for all three graphs; a run ended by a failed assertion (in build, in
   ls_files or in ok) has written nothing and exec'd nothing. *)
C9_ValidatedBeforePersist ==
    /\ (written # {} \/ execs # <<>>) => validated = Graphs
    /\ failure = "AssertionError" => (written = {} /\ execs = <<>>)

C9_Witness ==
    pc = "aborted" /\ failure = "AssertionError" /\ failedRule # ""
        /\ validated = {"lint"} /\ written = {}

(* C10: a category module whose file list is empty leaves the three graphs
   as they were. *)
C10_EmptyListNoChange ==
    [][(pc \in {"bash", "gha", "json", "md", "make", "nix", "py", "rs", "sh",
                "toml", "xref"}
          /\ pc' # pc /\ listed' = <<>>)
        => scripts' = scripts]_vars

C10_Witness ==
    pc = "xref" /\ failure = "" /\ listed = <<>> /\ tracked # {} /\ git = "ok"
        /\ \E i \in 1..Len(scripts.lint) : IsEdge("lint", i)

(***************************************************************************)
(* build() and lint() called on their own, once, on the graphs go() starts *)
(* from, with an output name or input path drawn from all short strings    *)
(* over a letter, "/", the space and the tab.                              *)
(***************************************************************************)
NameChars == {"a", "/", " ", "\t"}

RECURSIVE Strings(_, _)
Strings(chars, n) ==
    IF n = 0 THEN {""}
    ELSE LET shorter == Strings(chars, n - 1)
         IN shorter \cup {s \o c : s \in shorter, c \in chars}

Names == Strings(NameChars, MaxName)

CallRules == {"sc", "ttlint"}

BuildInit ==
    /\ pc = "call"
    /\ scripts = [lint |-> InitLint, fix |-> InitFix, format |-> InitFormat]
    /\ skip \in {{}, {"sc"}}
    /\ call = NoCall
    /\ tracked = {}
    /\ noqa = {}
    /\ git = "ok"
    /\ ci = FALSE
    /\ do_format = FALSE
    /\ do_fix = FALSE
    /\ listed = <<>>
    /\ validated = {}
    /\ written = {}
    /\ execs = <<>>
    /\ failure = ""
    /\ failedRule = ""
    /\ wsFile = NoFile
    /\ report = NoReport

(* scripts.<g> = <fn>(scripts.<g>, ...), where the call gave r *)
Called(g, fn, out, rule, ins, r) ==
    /\ pc = "call"
    /\ call' = [fn |-> fn, out |-> out, rule |-> rule, ins |-> ins, err |-> r.err]
    /\ scripts' = [scripts EXCEPT ![g] = r.ninja]
    /\ failure' = r.err
    /\ pc' = IF r.err # "" THEN "aborted" ELSE "returned"
    /\ UNCHANGED << tracked, noqa, git, ci, skip, do_format, do_fix, listed,
                    validated, written, execs, failedRule, wsFile, report >>

CallBuild ==
    \E g \in {"lint", "fix", "format"}, out \in Names, rule \in CallRules :
        Called(g, "build", out, rule, "a", build(scripts[g], out, rule, "a", skip))

CallLint ==
    \E g \in {"lint", "fix", "format"}, ins \in Names, rule \in CallRules :
        Called(g, "lint", slug(ins, rule), rule, ins, lint(scripts[g], rule, ins, skip))

BuildNext ==
    \/ CallBuild
    \/ CallLint

SpecBuild == BuildInit /\ [][BuildNext]_vars

HasWhitespace(s) == \E i \in 1..Len(s) : IsSpace(SubSeq(s, i, i))

InitScripts == [lint |-> InitLint, fix |-> InitFix, format |-> InitFormat]

(* C11 as stated: build() fails, leaving the graph without the edge, whenever
   the output name of a non-skipped edge contains a whitespace character,
   called directly or through lint(); no build edge of any graph has an
   output name containing whitespace. *)
C11_RejectsWhitespace ==
    /\ (call.fn # "" /\ call.rule \notin skip /\ HasWhitespace(call.out))
           => (call.err = "AssertionError" /\ scripts = InitScripts)
    /\ \A g \in Graphs : \A i \in 1..Len(scripts[g]) :
           IsEdge(g, i) => ~HasWhitespace(scripts[g][i].out)

(* C11 amended: build() fails, leaving the graph without the edge, whenever
   the output name of a non-skipped edge contains a space character, called
   directly or through lint(), and it fails in no other case; no build edge
   of any graph has an output name containing a space. *)
C11_RejectsSpace ==
    /\ (call.fn # "" /\ call.rule \notin skip)
           => /\ call.err = "AssertionError" <=> Contains(call.out, " ")
              /\ call.err = "AssertionError" => scripts = InitScripts
    /\ \A g \in Graphs : \A i \in 1..Len(scripts[g]) :
           IsEdge(g, i) => ~Contains(scripts[g][i].out, " ")

C11_Witness ==
    /\ pc = "aborted"
    /\ call.fn = "lint"
    /\ call.rule \notin skip
    /\ Contains(call.ins, " ")
    /\ Contains(call.ins, "/")
    /\ call.err = "AssertionError"
    /\ scripts = InitScripts

(***************************************************************************)
(* scripts/lint/whitespace.py: check_file() run with fix=True on a file    *)
(* and then with fix=False on what the first run left.  The file's text    *)
(* is drawn from all short strings over a letter, the space and the        *)
(* newline; a file that is not valid text is one read_text() raises        *)
(* UnicodeDecodeError on.                                                  *)
(***************************************************************************)
TextChars == {"a", " ", "\n"}

Texts == Strings(TextChars, MaxText)

IsWs(c) == c \in {" ", "\t", "\n"}

(* s.rstrip() *)
RECURSIVE RStrip(_)
RStrip(s) ==
    IF s # "" /\ IsWs(SubSeq(s, Len(s), Len(s)))
    THEN RStrip(SubSeq(s, 1, Len(s) - 1))
    ELSE s

(* s.splitlines(): the pieces between newlines, without an empty piece after
   a final newline *)
RECURSIVE SplitLines(_)
SplitLines(s) ==
    IF s = "" THEN <<>>
    ELSE LET first == CHOOSE k \in 1..(Len(s) + 1) :
                          /\ k = Len(s) + 1 \/ SubSeq(s, k, k) = "\n"
                          /\ \A j \in 1..(k - 1) : SubSeq(s, j, j) # "\n"
         IN <<SubSeq(s, 1, first - 1)>> \o SplitLines(SubSeq(s, first + 1, Len(s)))

(* "\n".join(lines) *)
JoinLines(lines) ==
    IF lines = <<>> THEN ""
    ELSE ForEach(LAMBDA acc, l : acc \o "\n" \o l, lines[1], Tail(lines))

(* error(msg, fix=fix) on the run so far: print, and exit(1) unless fixing;
   nothing runs after the exit *)
error(rep, msg) ==
    IF rep.exit THEN rep
    ELSE [rep EXCEPT !.problems = Append(@, msg), !.exit = ~rep.fix]

(* check_file(path, fix=fix): [text, report], the file's text afterwards and
   what the run printed and whether it exited with status 1 *)
check_file(f, fix) ==
    LET r0 == [fix |-> fix, problems |-> <<>>, exit |-> FALSE]
        t == f.text
        r1 == IF ~EndsWith(t, "\n") THEN error(r0, "No trailing newline") ELSE r0
        r2 == IF EndsWith(t, "\n\n") THEN error(r1, "Multiple trailing newlines") ELSE r1
        t2 == IF EndsWith(t, "\n\n") THEN RStrip(t) ELSE t
        lines == SplitLines(t2)
        fixed == [i \in 1..Len(lines) |-> RStrip(lines[i])]
        r3 == ForEach(LAMBDA r, i : IF lines[i] # fixed[i]
                                    THEN error(r, "Trailing whitespace") ELSE r,
                      r2, [i \in 1..Len(lines) |-> i])
        changed == r3.problems # <<>>
    IN IF ~f.decodable THEN [text |-> t, report |-> r0]
       ELSE [text |-> IF changed /\ fix THEN JoinLines(fixed) \o "\n" ELSE t,
             report |-> r3]

WsInit ==
    /\ pc = "fix"
    /\ wsFile \in [text : Texts, decodable : BOOLEAN]
    /\ report = NoReport
    /\ call = NoCall
    /\ scripts = InitScripts
    /\ skip = {}
    /\ tracked = {}
    /\ noqa = {}
    /\ git = "ok"
    /\ ci = FALSE
    /\ do_format = FALSE
    /\ do_fix = FALSE
    /\ listed = <<>>
    /\ validated = {}
    /\ written = {}
    /\ execs = <<>>
    /\ failure = ""
    /\ failedRule = ""

(* whitespace.py --fix <path> *)
CheckFileFix ==
    /\ pc = "fix"
    /\ LET r == check_file(wsFile, TRUE)
       IN /\ wsFile' = [wsFile EXCEPT !.text = r.text]
          /\ report' = r.report
          /\ pc' = "check"
    /\ UNCHANGED << scripts, tracked, noqa, git, ci, skip, do_format, do_fix, listed,
                    validated, written, execs, failure, failedRule, call >>

(* whitespace.py <path> *)
CheckFile ==
    /\ pc = "check"
    /\ LET r == check_file(wsFile, FALSE)
       IN /\ wsFile' = [wsFile EXCEPT !.text = r.text]
          /\ report' = r.report
          /\ pc' = IF r.report.exit THEN "exit1" ELSE "checked"
    /\ UNCHANGED << scripts, tracked, noqa, git, ci, skip, do_format, do_fix, listed,
                    validated, written, execs, failure, failedRule, call >>

WsNext ==
    \/ CheckFileFix
    \/ CheckFile

SpecWs == WsInit /\ [][WsNext]_vars

(* C12: after check_file(path, fix=True) on a decodable text file, a
   following check_file(path, fix=False) reports no problem and does not
   exit with failure. *)
C12_FixReachesFixedPoint ==
    (pc \in {"checked", "exit1"} /\ wsFile.decodable)
        => (report.problems = <<>> /\ ~report.exit)

=============================================================================
